---- MODULE Spec2Model ----
(***************************************************************************)
(* A model of github_tracker.py: GitHubContributionTracker and main().     *)
(*                                                                         *)
(* Time is counted in ticks, TicksPerSecond ticks to the second, so that   *)
(* datetime.now() has sub-second resolution while the event timestamps     *)
(* ('%Y-%m-%dT%H:%M:%SZ'), the X-RateLimit-Reset header and the file name  *)
(* timestamp ('%Y%m%d_%H%M%S') are whole seconds.                          *)
(***************************************************************************)
EXTENDS Integers, Sequences, FiniteSets, TLC

\* ---------------------------------------------------------------- bounds
TicksPerSecond == 2
\* ticks the clock may advance on its own (beyond the rate-limit sleeps)
MaxElapsed == 2
\* seconds after the start within which the API places a rate-limit reset
MaxResetAhead == 3
\* events the API holds in all (over all its pages)
MaxEvents == 3
\* rows of the tables handed directly to analyze_contributions
MaxRows == 3
\* executions of save_data by the direct callers
MaxSaves == 2

\* ------------------------------------------------------- program constants
SecondsPerDay == 86400
DefaultDays == 365
SleepBuffer == 1

StartSecond == 400 * SecondsPerDay
StartTick == StartSecond * TicksPerSecond

\* the windows the direct callers of fetch_contributions pass
DaysInputs == {0 - 1, 0, 1}

\* the offsets from UTC, in seconds, of the local time zone of the process
UtcOffsets == {0 - 3600, 0}

RemainingHeader == "X-RateLimit-Remaining"
ResetHeader == "X-RateLimit-Reset"

VARIABLES
    clock,          \* the time, in ticks since the epoch
    utc_offset,     \* the offset from UTC of the local time zone, in seconds
    env,            \* which of GITHUB_TOKEN, GITHUB_USERNAME are set
    dir_exists,     \* os.path.exists(self.data_dir)
    session,        \* self.session: "none", "open", "closed"
    mpc,            \* position of the caller (main, or a direct caller)
    started,        \* the pipeline steps begun so far, in order
    failed,         \* the step that raised, "none" before
    error,          \* the exception in flight in the caller, "none" if none
    pc,             \* position inside fetch_contributions
    days,           \* its argument
    start_date,     \* locals of fetch_contributions (ticks)
    end_date,
    page,
    contributions,
    wait_time,
    requested,      \* the page number of every GET issued so far
    resp,           \* the last response: status and headers
    outcome,        \* what the last response led to
    served,         \* every event of the bodies parsed so far (response.json())
    fetch_error,    \* the exception fetch_contributions raised, "none" before
    summary,        \* the value of analyze_contributions
    files,          \* the data directory: a set of <<path, content>>
    saves           \* one entry per save_data execution: when, and the paths written

vars == <<clock, utc_offset, env, dir_exists, session, mpc, started, failed,
          error, pc, days, start_date, end_date, page, contributions,
          wait_time, requested, resp, outcome, served, fetch_error, summary,
          files, saves>>

mainVars == <<utc_offset, env, dir_exists, session, mpc, started, failed, error>>
fetchVars == <<pc, days, start_date, end_date, page, contributions, wait_time,
               requested, resp, outcome, served, fetch_error>>
outVars == <<summary, files, saves>>

\* ---------------------------------------------------------------- helpers
Range(s) == {s[i] : i \in DOMAIN s}

SeqsUpTo(S, n) == UNION {[1..k -> S] : k \in 0..n}

\* dict.get(name, default) on the response headers
HeaderGet(h, name, default) == IF name \in DOMAIN h THEN h[name] ELSE default

\* a whole-second value in ticks: the naive datetime that strptime makes of
\* an event's 'created_at' (its UTC fields), and the reset time of the header
Ticks(sec) == sec * TicksPerSecond

\* datetime.now(): the naive local time, the clock shifted by the zone's offset
datetime_now(c, offset) == c + Ticks(offset)

\* datetime.timestamp() of a naive datetime, which is taken as local time
datetime_timestamp(naive, offset) == naive - Ticks(offset)

\* line 97: datetime.now().timestamp()
NowTimestamp(c, offset) == datetime_timestamp(datetime_now(c, offset), offset)

\* datetime.date() of a whole-second timestamp
DateOf(sec) == sec \div SecondsPerDay

NoResponse == [ok |-> FALSE, headers |-> <<>>]

\* ------------------------------------------------------ fetch_contributions
\* line 75: the argument check
ValidDays_NonNegative(d) == d >= 0
ValidDays(d) == d > 0

\* lines 111-116: the record appended for an event
EventRecord(ev) == [date |-> DateOf(ev.created_at), type |-> ev.type, repo |-> ev.repo]

\* line 109: the event precedes the window start
BeforeWindow(ev, st) == Ticks(ev.created_at) < st

\* line 111: the event is not after 'now'
NotAfterNow_Always(ev, en) == TRUE
NotAfterNow(ev, en) == Ticks(ev.created_at) <= en

\* lines 107-116: the for loop over one page; early is the return of line 110
RECURSIVE ScanPage(_, _, _, _, _)
ScanPage(events, i, table, st, en) ==
    IF i > Len(events) THEN [table |-> table, early |-> FALSE]
    ELSE IF BeforeWindow(events[i], st) THEN [table |-> table, early |-> TRUE]
    ELSE IF NotAfterNow(events[i], en)
         THEN ScanPage(events, i + 1, Append(table, EventRecord(events[i])), st, en)
         ELSE ScanPage(events, i + 1, table, st, en)

\* lines 94-98: the rate-limit check, now being datetime.now().timestamp()
WaitTime(h, now) == Ticks(HeaderGet(h, ResetHeader, 0)) - now
RateLimitStall_IgnoresReset(h, now) ==
    HeaderGet(h, RemainingHeader, 0) = 0
RateLimitStall(h, now) ==
    /\ HeaderGet(h, RemainingHeader, 0) = 0
    /\ WaitTime(h, now) > 0

\* what the API may answer ------------------------------------------------
\* the headers of a successful response received at tick now: none; quota left
\* and the reset ahead; quota used up and the reset ahead, or in the second
\* that is running; no quota header and the reset ahead
HeaderChoices(now) ==
    LET s == now \div TicksPerSecond
        ahead == {r \in {s + 1} : r <= StartSecond + MaxResetAhead}
    IN {<<>>}
       \cup {(RemainingHeader :> 0) @@ (ResetHeader :> s)}
       \cup {(RemainingHeader :> v) @@ (ResetHeader :> r) : v \in {0, 1}, r \in ahead}
       \cup {(ResetHeader :> r) : r \in ahead}

\* events whose 'created_at' (UTC) reads as: the second before start_date, the
\* second of start_date, the second of end_date, and a second after end_date:
\* the UTC second in which the call was made where that reads later than
\* end_date, the next second otherwise
EventChoices(st, en, offset) ==
    LET s == st \div TicksPerSecond
        e == en \div TicksPerSecond
        c == datetime_timestamp(en, offset) \div TicksPerSecond
    IN {[created_at |-> s - 1, type |-> "PushEvent", repo |-> "octo/alpha"],
        [created_at |-> s, type |-> "WatchEvent", repo |-> "octo/beta"],
        [created_at |-> e, type |-> "PushEvent", repo |-> "octo/alpha"],
        [created_at |-> IF c > e THEN c ELSE e + 1,
         type |-> "PushEvent", repo |-> "octo/beta"]}

\* the non-empty pages the API can still serve
PageChoices(st, en, offset, already) ==
    SeqsUpTo(EventChoices(st, en, offset), MaxEvents - already) \ {<<>>}

\* ---------------------------------------------------- analyze_contributions
RECURSIVE Gcd(_, _)
Gcd(a, b) == IF b = 0 THEN a ELSE Gcd(b, a % b)

\* line 153: the true division n / d, kept as a fraction in lowest terms
Divide_Floor(n, d) == [num |-> n \div d, den |-> 1]
Divide(n, d) == [num |-> n \div Gcd(n, d), den |-> d \div Gcd(n, d)]

\* a column of the table
Column(df, name) == [i \in DOMAIN df |-> df[i][name]]

\* Series.value_counts().to_dict(): the count of each value of the first i cells
RECURSIVE value_counts(_, _)
value_counts(col, i) ==
    IF i = 0 THEN <<>>
    ELSE LET c == value_counts(col, i - 1)
         IN IF col[i] \in DOMAIN c
            THEN [c EXCEPT ![col[i]] = @ + 1]
            ELSE c @@ (col[i] :> 1)

\* Series.nunique()
nunique(col) == Cardinality(Range(col))

\* lines 140-155
analyze_contributions(df) ==
    IF df = <<>>
    THEN [total_contributions |-> 0,
          contribution_types |-> <<>>,
          active_repositories |-> 0,
          daily_average |-> [num |-> 0, den |-> 1]]
    ELSE [total_contributions |-> Len(df),
          contribution_types |-> value_counts(Column(df, "type"), Len(df)),
          active_repositories |-> nunique(Column(df, "repo")),
          daily_average |-> Divide(Len(df), nunique(Column(df, "date")))]

NoSummary == [total_contributions |-> 0 - 1]

\* ------------------------------------------------------------------ save_data
\* line 211: strftime('%Y%m%d_%H%M%S') of the naive local time now: its second
strftime_Minutes(now) == now \div (60 * TicksPerSecond)
strftime(now) == now \div TicksPerSecond

\* lines 215 and 220: os.path.join(self.data_dir, ...)
data_path(timestamp) == <<"data", "contributions", timestamp, "csv">>
analysis_path(timestamp) == <<"data", "analysis", timestamp, "txt">>

\* line 247
viz_path == <<"data", "contribution_graph", "png">>

\* a file is created, or truncated and rewritten
WriteFile(fs, path, content) ==
    {f \in fs : f[1] # path} \cup {<<path, content>>}

SaveOutcomes == {"saved", "csv_fails", "txt_fails"}

\* lines 211-227: the files after save_data, the OSError raised at to_csv
\* (line 216) or at open (line 221) or none, and the record of the execution
save_data(fs, df, analysis, now, how) ==
    LET timestamp == strftime(now)
        withCsv == WriteFile(fs, data_path(timestamp), df)
        withTxt == WriteFile(withCsv, analysis_path(timestamp), analysis)
    IN CASE how = "csv_fails" ->
              [files |-> fs, error |-> "OSError",
               log |-> [at |-> now, paths |-> {}]]
         [] how = "txt_fails" ->
              [files |-> withCsv, error |-> "OSError",
               log |-> [at |-> now, paths |-> {data_path(timestamp)}]]
         [] OTHER ->
              [files |-> withTxt, error |-> "none",
               log |-> [at |-> now,
                        paths |-> {data_path(timestamp), analysis_path(timestamp)}]]

\* ------------------------------------------------------ fetch_contributions, the loop
\* lines 58-83: entry; the ValueError of line 76, or the locals set up
fetch_contributions ==
    /\ pc = "idle"
    /\ mpc \in {"fetch", "direct_fetch"}
    /\ IF ~ValidDays(days)
       THEN /\ pc' = "raised"
            /\ fetch_error' = "ValueError"
            /\ UNCHANGED <<start_date, end_date, page, contributions>>
       ELSE /\ pc' = "loop"
            /\ end_date' = datetime_now(clock, utc_offset)
            /\ start_date' = datetime_now(clock, utc_offset) - Ticks(days * SecondsPerDay)
            /\ page' = 1
            /\ contributions' = <<>>
            /\ UNCHANGED fetch_error
    /\ UNCHANGED <<clock, days, wait_time, requested, resp, outcome, served>>
    /\ UNCHANGED mainVars
    /\ UNCHANGED outVars

\* lines 87-90: the GET of the current page is issued
SendRequest ==
    /\ pc = "loop"
    /\ pc' = "waiting"
    /\ requested' = Append(requested, page)
    /\ UNCHANGED <<clock, days, start_date, end_date, page, contributions,
                   wait_time, resp, outcome, served, fetch_error>>
    /\ UNCHANGED mainVars
    /\ UNCHANGED outVars

\* lines 87-91, 120-122: the request fails (transport error or non-2xx status)
RequestFails_ReturnsPartial ==
    /\ pc = "waiting"
    /\ resp' = [ok |-> FALSE, headers |-> <<>>]
    /\ outcome' = "error"
    /\ pc' = "returned"
    /\ UNCHANGED <<clock, days, start_date, end_date, page, contributions,
                   wait_time, requested, served, fetch_error>>
    /\ UNCHANGED mainVars
    /\ UNCHANGED outVars
RequestFails ==
    /\ pc = "waiting"
    /\ resp' = [ok |-> FALSE, headers |-> <<>>]
    /\ outcome' = "error"
    /\ pc' = "raised"
    /\ fetch_error' = "RequestException"
    /\ UNCHANGED <<clock, days, start_date, end_date, page, contributions,
                   wait_time, requested, served>>
    /\ UNCHANGED mainVars
    /\ UNCHANGED outVars

\* lines 94-101 with the sleep begun and the page retried
StallAdvances(h) ==
    /\ wait_time' = WaitTime(h, NowTimestamp(clock, utc_offset))
    /\ outcome' = "stall"
    /\ pc' = "sleeping"
    /\ page' = page + 1
    /\ UNCHANGED contributions
Stall(h) ==
    /\ wait_time' = WaitTime(h, NowTimestamp(clock, utc_offset))
    /\ outcome' = "stall"
    /\ pc' = "sleeping"
    /\ UNCHANGED <<page, contributions>>

\* lines 94-101: a successful response that is rate limited
RateLimited ==
    /\ pc = "waiting"
    /\ \E h \in HeaderChoices(clock) :
        /\ RateLimitStall(h, NowTimestamp(clock, utc_offset))
        /\ resp' = [ok |-> TRUE, headers |-> h]
        /\ Stall(h)
    /\ UNCHANGED <<clock, days, start_date, end_date, requested, served, fetch_error>>
    /\ UNCHANGED mainVars
    /\ UNCHANGED outVars

\* line 100: time.sleep(wait_time + 1), in ticks
SleepTicks(w) == w + Ticks(SleepBuffer)

Wake ==
    /\ pc = "sleeping"
    /\ clock' = clock + SleepTicks(wait_time)
    /\ pc' = "loop"
    /\ UNCHANGED <<days, start_date, end_date, page, contributions, wait_time,
                   requested, resp, outcome, served, fetch_error>>
    /\ UNCHANGED mainVars
    /\ UNCHANGED outVars

\* lines 103-105, 124: a successful response with an empty list
EmptyPage ==
    /\ pc = "waiting"
    /\ \E h \in HeaderChoices(clock) :
        /\ ~RateLimitStall(h, NowTimestamp(clock, utc_offset))
        /\ resp' = [ok |-> TRUE, headers |-> h]
    /\ outcome' = "empty"
    /\ pc' = "returned"
    /\ UNCHANGED <<clock, days, start_date, end_date, page, contributions,
                   wait_time, requested, served, fetch_error>>
    /\ UNCHANGED mainVars
    /\ UNCHANGED outVars

\* lines 103-118: a successful response with events
ProcessPage ==
    /\ pc = "waiting"
    /\ \E h \in HeaderChoices(clock) :
        /\ ~RateLimitStall(h, NowTimestamp(clock, utc_offset))
        /\ resp' = [ok |-> TRUE, headers |-> h]
    /\ \E events \in PageChoices(start_date, end_date, utc_offset, Len(served)) :
        LET scan == ScanPage(events, 1, contributions, start_date, end_date)
        IN /\ served' = served \o events
           /\ contributions' = scan.table
           /\ IF scan.early
              THEN /\ outcome' = "old"
                   /\ pc' = "returned"
                   /\ UNCHANGED page
              ELSE /\ outcome' = "page"
                   /\ pc' = "loop"
                   /\ page' = page + 1
    /\ UNCHANGED <<clock, days, start_date, end_date, wait_time, requested, fetch_error>>
    /\ UNCHANGED mainVars
    /\ UNCHANGED outVars

\* time passes before a call and while a request is in flight: the moments
\* before the clock is read (lines 78, 97 and 211)
Tick ==
    /\ pc \in {"idle", "waiting"}
    /\ clock < StartTick + MaxElapsed
    /\ clock' = clock + 1
    /\ UNCHANGED <<utc_offset, env, dir_exists, session, mpc, started, failed,
                   error, pc, days, start_date, end_date, page, contributions,
                   wait_time, requested, resp, outcome, served, fetch_error,
                   summary, files, saves>>

FetchStep ==
    \/ fetch_contributions
    \/ SendRequest
    \/ RequestFails
    \/ RateLimited
    \/ Wake
    \/ EmptyPage
    \/ ProcessPage

InitFetchLocals ==
    /\ pc = "idle"
    /\ start_date = 0
    /\ end_date = 0
    /\ page = 0
    /\ contributions = <<>>
    /\ wait_time = 0
    /\ requested = <<>>
    /\ resp = NoResponse
    /\ outcome = "none"
    /\ served = <<>>
    /\ fetch_error = "none"

InitOutputs ==
    /\ summary = NoSummary
    /\ files = {}
    /\ saves = <<>>

\* a caller holding a constructed tracker calls fetch_contributions(days)
InitFetch ==
    /\ clock = StartTick
    /\ utc_offset \in UtcOffsets
    /\ env = [v \in {"GITHUB_TOKEN", "GITHUB_USERNAME"} |-> TRUE]
    /\ dir_exists = TRUE
    /\ session = "open"
    /\ mpc = "direct_fetch"
    /\ started = <<>>
    /\ failed = "none"
    /\ error = "none"
    /\ days \in DaysInputs
    /\ InitFetchLocals
    /\ InitOutputs

NextFetch == FetchStep \/ Tick

SpecFetch == InitFetch /\ [][NextFetch]_vars

\* fetch_contributions under the scheduling of a running process: a step that
\* can be taken is taken (the GET returns or raises within its timeout, the
\* sleep ends); the clock need not advance
LiveFetch == SpecFetch /\ WF_vars(FetchStep)

\* ---------------------------------------------------------------- main
RequiredVars == {"GITHUB_TOKEN", "GITHUB_USERNAME"}

\* lines 38-39: the required variables that are not set
MissingVars(e) == {v \in RequiredVars : ~e[v]}

\* lines 237 and 19-29: the tracker is constructed, outside the try of main;
\* _validate_env_vars, then the session, then ensure_data_directory
Construct ==
    /\ mpc = "start"
    /\ started' = <<"credentials">>
    /\ IF MissingVars(env) # {}
       THEN /\ failed' = "credentials"
            /\ error' = "ValueError"
            /\ mpc' = "exited"
            /\ UNCHANGED <<session, dir_exists>>
       ELSE /\ session' = "open"
            /\ \/ /\ dir_exists
                  /\ mpc' = "constructed"
                  /\ UNCHANGED <<dir_exists, failed, error>>
               \/ /\ ~dir_exists
                  /\ dir_exists' = TRUE
                  /\ mpc' = "constructed"
                  /\ UNCHANGED <<failed, error>>
               \/ /\ ~dir_exists
                  /\ failed' = "mkdir"
                  /\ error' = "OSError"
                  /\ mpc' = "exited"
                  /\ UNCHANGED dir_exists
    /\ UNCHANGED <<clock, utc_offset, env>>
    /\ UNCHANGED fetchVars
    /\ UNCHANGED outVars

\* lines 239-241: main enters the try and calls fetch_contributions()
CallFetch ==
    /\ mpc = "constructed"
    /\ mpc' = "fetch"
    /\ started' = Append(started, "fetch")
    /\ UNCHANGED <<clock, utc_offset, env, dir_exists, session, failed, error>>
    /\ UNCHANGED fetchVars
    /\ UNCHANGED outVars

\* lines 241, 258-260: fetch_contributions raised
FetchRaised_Swallowed ==
    /\ mpc = "fetch"
    /\ pc = "raised"
    /\ started' = Append(started, "analyze")
    /\ summary' = analyze_contributions(<<>>)
    /\ mpc' = "visualize"
    /\ UNCHANGED <<clock, utc_offset, env, dir_exists, session, failed, error,
                   files, saves>>
    /\ UNCHANGED fetchVars
FetchRaised ==
    /\ mpc = "fetch"
    /\ pc = "raised"
    /\ failed' = "fetch"
    /\ error' = fetch_error
    /\ mpc' = "finally"
    /\ UNCHANGED <<clock, utc_offset, env, dir_exists, session, started>>
    /\ UNCHANGED fetchVars
    /\ UNCHANGED outVars

\* lines 243-244: the table came back and is analyzed
Analyze ==
    /\ mpc = "fetch"
    /\ pc = "returned"
    /\ started' = Append(started, "analyze")
    /\ summary' = analyze_contributions(contributions)
    /\ mpc' = "visualize"
    /\ UNCHANGED <<clock, utc_offset, env, dir_exists, session, failed, error,
                   files, saves>>
    /\ UNCHANGED fetchVars

\* lines 246-248 and 174-198: the chart; nothing for an empty table, else the
\* per-date counts are drawn and savefig writes the image or raises OSError
Visualize ==
    /\ mpc = "visualize"
    /\ started' = Append(started, "render")
    /\ \/ /\ contributions = <<>>
          /\ mpc' = "save"
          /\ UNCHANGED <<files, failed, error>>
       \/ /\ contributions # <<>>
          /\ files' = WriteFile(files, viz_path,
                        value_counts(Column(contributions, "date"), Len(contributions)))
          /\ mpc' = "save"
          /\ UNCHANGED <<failed, error>>
       \/ /\ contributions # <<>>
          /\ failed' = "render"
          /\ error' = "OSError"
          /\ mpc' = "finally"
          /\ UNCHANGED files
    /\ UNCHANGED <<clock, utc_offset, env, dir_exists, session, summary, saves>>
    /\ UNCHANGED fetchVars

\* lines 250-256: save_data, then the summary is printed
Save ==
    /\ mpc = "save"
    /\ started' = Append(started, "persist")
    /\ \E how \in SaveOutcomes :
        LET r == save_data(files, contributions, summary, datetime_now(clock, utc_offset), how)
        IN /\ files' = r.files
           /\ saves' = Append(saves, r.log)
           /\ error' = r.error
           /\ failed' = IF r.error = "none" THEN "none" ELSE "persist"
    /\ mpc' = "finally"
    /\ UNCHANGED <<clock, utc_offset, env, dir_exists, session, summary>>
    /\ UNCHANGED fetchVars

\* lines 258-262: the exception, if any, is logged and raised again; the
\* finally clause closes the session and main is left
Finally ==
    /\ mpc = "finally"
    /\ session' = "closed"
    /\ mpc' = "exited"
    /\ UNCHANGED <<clock, utc_offset, env, dir_exists, started, failed, error>>
    /\ UNCHANGED fetchVars
    /\ UNCHANGED outVars

\* one run of the script: any environment, the data directory there or not
InitMain ==
    /\ clock = StartTick
    /\ utc_offset \in UtcOffsets
    /\ env \in [RequiredVars -> BOOLEAN]
    /\ dir_exists \in BOOLEAN
    /\ session = "none"
    /\ mpc = "start"
    /\ started = <<>>
    /\ failed = "none"
    /\ error = "none"
    /\ days = DefaultDays
    /\ InitFetchLocals
    /\ InitOutputs

NextMain ==
    \/ Construct
    \/ CallFetch
    \/ FetchStep
    \/ FetchRaised
    \/ Analyze
    \/ Visualize
    \/ Save
    \/ Finally
    \/ Tick

SpecMain == InitMain /\ [][NextMain]_vars

\* ------------------------------------- direct calls of analyze_contributions
RowDates == {DateOf(StartSecond) - 1, DateOf(StartSecond)}
RowTypes == {"PushEvent", "WatchEvent"}
RowRepos == {"octo/alpha", "octo/beta"}
RowChoices == [date : RowDates, type : RowTypes, repo : RowRepos]

\* a caller hands a table to analyze_contributions
AnalyzeCall ==
    /\ mpc = "direct_analyze"
    /\ summary' = analyze_contributions(contributions)
    /\ mpc' = "analyzed"
    /\ UNCHANGED <<clock, utc_offset, env, dir_exists, session, started, failed,
                   error, files, saves>>
    /\ UNCHANGED fetchVars

InitAnalyze ==
    /\ clock = StartTick
    /\ utc_offset = 0
    /\ env = [v \in RequiredVars |-> TRUE]
    /\ dir_exists = TRUE
    /\ session = "open"
    /\ mpc = "direct_analyze"
    /\ started = <<>>
    /\ failed = "none"
    /\ error = "none"
    /\ days = DefaultDays
    /\ pc = "idle"
    /\ start_date = 0
    /\ end_date = 0
    /\ page = 0
    /\ contributions \in SeqsUpTo(RowChoices, MaxRows)
    /\ wait_time = 0
    /\ requested = <<>>
    /\ resp = NoResponse
    /\ outcome = "none"
    /\ served = <<>>
    /\ fetch_error = "none"
    /\ InitOutputs

NextAnalyze == AnalyzeCall

SpecAnalyze == InitAnalyze /\ [][NextAnalyze]_vars

\* ------------------------------------------------- direct calls of save_data
SaveTables ==
    {<<>>,
     <<[date |-> DateOf(StartSecond), type |-> "PushEvent", repo |-> "octo/alpha"]>>}

\* save_data is executed once more, on the same data directory
SaveCall ==
    /\ mpc = "direct_save"
    /\ Len(saves) < MaxSaves
    /\ \E df \in SaveTables, how \in SaveOutcomes :
        LET r == save_data(files, df, analyze_contributions(df), datetime_now(clock, utc_offset), how)
        IN /\ files' = r.files
           /\ saves' = Append(saves, r.log)
           /\ error' = r.error
    /\ UNCHANGED <<clock, utc_offset, env, dir_exists, session, mpc, started,
                   failed, summary>>
    /\ UNCHANGED fetchVars

InitSave ==
    /\ clock = StartTick
    /\ utc_offset \in UtcOffsets
    /\ env = [v \in RequiredVars |-> TRUE]
    /\ dir_exists = TRUE
    /\ session = "open"
    /\ mpc = "direct_save"
    /\ started = <<>>
    /\ failed = "none"
    /\ error = "none"
    /\ days = DefaultDays
    /\ InitFetchLocals
    /\ InitOutputs

NextSave == SaveCall \/ Tick

SpecSave == InitSave /\ [][NextSave]_vars

\* ------------------------------------------------- claims: fetch_contributions
InWindow(ev) ==
    /\ start_date <= ev.created_at * TicksPerSecond
    /\ ev.created_at * TicksPerSecond <= end_date

IsOld(ev) == ev.created_at * TicksPerSecond < start_date

RecordOf(ev) ==
    [date |-> ev.created_at \div SecondsPerDay, type |-> ev.type, repo |-> ev.repo]

\* the records of the events of evs that lie in the window, in their order
WindowRecords(evs) ==
    LET kept == SelectSeq(evs, InWindow)
    IN [i \in 1..Len(kept) |-> RecordOf(kept[i])]

NewestFirst(evs) ==
    \A i \in 1..(Len(evs) - 1) : evs[i].created_at >= evs[i + 1].created_at

OldSeen == \E i \in DOMAIN served : IsOld(served[i])

FirstOld == CHOOSE i \in DOMAIN served :
                IsOld(served[i]) /\ \A j \in 1..(i - 1) : ~IsOld(served[j])

\* the instant at which the call was made, and the window of the claim: the
\* days before that instant
CalledAt == end_date - utc_offset * TicksPerSecond

InClaimedWindow(ev) ==
    /\ CalledAt - days * SecondsPerDay * TicksPerSecond <= ev.created_at * TicksPerSecond
    /\ ev.created_at * TicksPerSecond <= CalledAt

ClaimedRecords(evs) ==
    LET kept == SelectSeq(evs, InClaimedWindow)
    IN [i \in 1..Len(kept) |-> RecordOf(kept[i])]

\* C1, for the histories the early exit is written for (events served newest
\* first): the returned table holds exactly the records of the served events
\* created in [now - days, now], in arrival order.
C1_WindowTable ==
    (pc = "returned" /\ NewestFirst(served)) => contributions = ClaimedRecords(served)

\* C2: every record of the table comes from a served event of the window
\* [start_date, end_date]; and once an event older than start_date was read the
\* call has returned the table built before that event, appends nothing more and
\* issues no further request.
C2_WindowOnly ==
    /\ [](\A i \in DOMAIN contributions :
            \E j \in DOMAIN served :
                InWindow(served[j]) /\ contributions[i] = RecordOf(served[j]))
    /\ [](OldSeen =>
            /\ pc = "returned"
            /\ contributions = WindowRecords(SubSeq(served, 1, FirstOld - 1)))
    /\ [][OldSeen =>
            /\ requested' = requested
            /\ contributions' = contributions
            /\ served' = served
            /\ pc' = pc]_vars

C2_Witness ==
    /\ OldSeen
    /\ contributions # <<>>
    /\ \E i \in DOMAIN served : served[i].created_at * TicksPerSecond > end_date

\* the response r, received at tick now, carries X-RateLimit-Remaining = 0 and
\* a reset time in the future
CarriesStall(r, now) ==
    /\ r.ok
    /\ RemainingHeader \in DOMAIN r.headers
    /\ ResetHeader \in DOMAIN r.headers
    /\ r.headers[RemainingHeader] = 0
    /\ r.headers[ResetHeader] * TicksPerSecond > now

\* the response r, received at tick now, makes the rate-limit check sleep
MakesStall(r, now) ==
    /\ r.ok
    /\ ResetHeader \in DOMAIN r.headers
    /\ r.headers[ResetHeader] * TicksPerSecond > now
    /\ (RemainingHeader \in DOMAIN r.headers => r.headers[RemainingHeader] = 0)

\* C3: a successful response with X-RateLimit-Remaining = 0 and a reset in the
\* future leaves the page counter and the table as they are and does not end
\* the loop; no request is issued before the reset time has passed, and the
\* next request asks for the same page; the page counter moves only by one, and
\* only on a response that did not stall and whose page was processed to its end.
C3_StallRetries ==
    /\ [][(pc = "waiting" /\ pc' # "waiting" /\ CarriesStall(resp', clock')) =>
            /\ pc' = "sleeping"
            /\ page' = page
            /\ contributions' = contributions
            /\ requested' = requested]_vars
    /\ [][pc = "sleeping" =>
            /\ requested' = requested
            /\ page' = page
            /\ contributions' = contributions
            /\ pc' \in {"sleeping", "loop"}]_vars
    /\ [][(outcome = "stall" /\ requested' # requested) =>
            /\ clock' > resp.headers[ResetHeader] * TicksPerSecond
            /\ Len(requested') = Len(requested) + 1
            /\ requested'[Len(requested')] = requested[Len(requested)]]_vars
    /\ [][(pc # "idle" /\ page' # page) =>
            /\ page' = page + 1
            /\ pc = "waiting"
            /\ ~MakesStall(resp', clock')
            /\ Len(served') > Len(served)
            /\ \A i \in (Len(served) + 1)..Len(served') : ~IsOld(served'[i])]_vars

C3_Witness ==
    /\ pc = "waiting"
    /\ outcome = "stall"
    /\ resp.ok
    /\ RemainingHeader \in DOMAIN resp.headers
    /\ resp.headers[RemainingHeader] = 0
    /\ wait_time > 0
    /\ clock > resp.headers[ResetHeader] * TicksPerSecond
    /\ Len(requested) >= 3
    /\ requested[Len(requested)] = 2
    /\ requested[Len(requested) - 1] = 2

\* C4: a failed page request raises the failure to the caller whatever was
\* collected before; after it no request is issued and no table is returned.
C4_FailureRaises ==
    /\ [][(pc = "waiting" /\ pc' # "waiting" /\ ~resp'.ok) =>
            /\ pc' = "raised"
            /\ fetch_error' = "RequestException"]_vars
    /\ [][pc = "raised" => (pc' = "raised" /\ requested' = requested)]_vars

C4_Witness ==
    /\ pc = "raised"
    /\ fetch_error = "RequestException"
    /\ Len(requested) = 2
    /\ contributions # <<>>

\* C5: a window of zero or fewer days is rejected with the invalid-argument
\* error, and no request is ever issued for it.
C5_RejectedBeforeRequest ==
    days <= 0 =>
        /\ requested = <<>>
        /\ pc \in {"idle", "raised"}
        /\ (pc = "raised" => fetch_error = "ValueError")

C5_Witness == days <= 0 /\ pc = "raised"

\* C10: a call with a positive window returns or raises, the API holding
\* finitely many events and placing its resets within a bounded horizon; a
\* response without rate-limit headers, or whose reset is not in the future, is
\* never followed by the sleep: its page is processed.
C10_Terminates ==
    /\ <>(pc \in {"returned", "raised"})
    /\ [][(pc = "waiting" /\ pc' # "waiting" /\ resp'.ok
            /\ \/ resp'.headers = <<>>
               \/ /\ ResetHeader \in DOMAIN resp'.headers
                  /\ resp'.headers[ResetHeader] * TicksPerSecond <= clock') =>
            /\ pc' \in {"loop", "returned"}
            /\ outcome' \in {"empty", "old", "page"}]_vars

C10_Witness ==
    /\ pc = "returned"
    /\ days > 0
    /\ wait_time > 0
    /\ resp.headers = <<>>
    /\ page = 2

\* ----------------------------------------------- claims: analyze_contributions
\* C6: analyze_contributions returns the reference summary of any table: the
\* zero summary for the empty table; for N >= 1 rows over D distinct dates the
\* total N, the count of every type present, the number of distinct
\* repositories, and the average N / D exactly.
C6_ReferenceSummary ==
    mpc = "analyzed" =>
        LET df == contributions
            N == Len(df)
            D == Cardinality({df[i].date : i \in DOMAIN df})
            types == {df[i].type : i \in DOMAIN df}
        IN IF N = 0
           THEN summary = [total_contributions |-> 0,
                           contribution_types |-> <<>>,
                           active_repositories |-> 0,
                           daily_average |-> [num |-> 0, den |-> 1]]
           ELSE /\ summary.total_contributions = N
                /\ DOMAIN summary.contribution_types = types
                /\ \A t \in types :
                      summary.contribution_types[t]
                          = Cardinality({i \in DOMAIN df : df[i].type = t})
                /\ summary.active_repositories
                      = Cardinality({df[i].repo : i \in DOMAIN df})
                /\ summary.daily_average.den > 0
                /\ summary.daily_average.num * D = N * summary.daily_average.den

C6_Witness ==
    /\ mpc = "analyzed"
    /\ Len(contributions) = 3
    /\ Cardinality({contributions[i].date : i \in DOMAIN contributions}) = 2
    /\ Cardinality({contributions[i].type : i \in DOMAIN contributions}) = 2

\* ----------------------------------------------------------- claims: save_data
\* C7 as stated: no two executions of save_data write to the same path.
C7_NeverSamePath ==
    \A i, j \in DOMAIN saves :
        i < j => saves[i].paths \cap saves[j].paths = {}

\* C7 amended: two executions of save_data that read different clock seconds
\* write to different paths.
C7_DistinctSeconds ==
    \A i, j \in DOMAIN saves :
        (i < j /\ saves[i].at \div TicksPerSecond # saves[j].at \div TicksPerSecond)
            => saves[i].paths \cap saves[j].paths = {}

C7_Witness ==
    /\ Len(saves) = 2
    /\ saves[1].at \div TicksPerSecond # saves[2].at \div TicksPerSecond
    /\ Cardinality(saves[1].paths) = 2
    /\ Cardinality(saves[2].paths) = 2
    /\ Cardinality(files) = 4

\* ---------------------------------------------------------------- claims: main
\* C8: on every path of a run that created the session, the session is closed
\* when the run ends, and no request is issued after it was closed.
C8_SessionReleased ==
    /\ []((mpc = "exited" /\ session # "none") => session = "closed")
    /\ [][session = "closed" => requested' = requested]_vars

Pipeline == <<"credentials", "fetch", "analyze", "render", "persist">>

CredentialMissing == ~env["GITHUB_TOKEN"] \/ ~env["GITHUB_USERNAME"]

TableAndSummaryFiles == {f \in files : f[1][2] \in {"contributions", "analysis"}}

\* C9: the steps of a run begin in the order credential check, fetch, analyze,
\* render, persist, each only after the earlier ones completed without error;
\* with a credential missing nothing is requested or written; after the first
\* failure no step begins and nothing is requested or written, no table or
\* summary file exists when a step before persist failed, and the error leaves
\* main.
C9_Sequential ==
    /\ [](Len(started) <= Len(Pipeline) /\ started = SubSeq(Pipeline, 1, Len(started)))
    /\ [](CredentialMissing =>
            /\ requested = <<>>
            /\ files = {}
            /\ session = "none"
            /\ Len(started) <= 1)
    /\ [][CredentialMissing => dir_exists' = dir_exists]_vars
    /\ [][failed # "none" =>
            /\ started' = started
            /\ files' = files
            /\ requested' = requested
            /\ failed' = failed
            /\ error' = error]_vars
    /\ [](failed \in {"credentials", "mkdir", "fetch", "render"} =>
            TableAndSummaryFiles = {})
    /\ [](Len(started) >= 3 => (pc = "returned" /\ summary # NoSummary))
    /\ [](Len(started) >= 5 => failed \in {"none", "persist"})
    /\ [](failed # "none" => (error # "none" /\ mpc \in {"finally", "exited"}))
    /\ [](mpc = "exited" => (failed # "none" <=> error # "none"))

C9_Witness ==
    /\ mpc = "exited"
    /\ failed = "render"
    /\ error = "OSError"
    /\ started = SubSeq(Pipeline, 1, 4)
    /\ Len(requested) >= 2

====
